---- MODULE Spec2Model ----
(***************************************************************************)
(* A model of sympy/physics/quantum/represent.py: the recursive            *)
(* representation dispatcher `represent`, its product (Mul) index/unities  *)
(* bookkeeping, the fallbacks rep_innerproduct / rep_expectation, the      *)
(* post-processor integrate_result, and the helpers get_basis and          *)
(* enumerate_states.                                                       *)
(*                                                                         *)
(* Python objects are records [t, cls, label]; an options dict, which a    *)
(* keyword splat copies at every call, is a record held by value in each   *)
(* frame, while                                                            *)
(* the list stored under "unities" is a reference into `heap`, because a   *)
(* dict copy shares the list object.                                       *)
(***************************************************************************)
EXTENDS Integers, Sequences, FiniteSets, TLC

VARIABLES jobs, results, stack, heap, en, gb

vars == <<jobs, results, stack, heap, en, gb>>

\* ------------------------------------------------------------------ bounds
MaxFactors == 3
MaxStartIndex == 2
MaxEnumStart == 10
MaxEnumCount == 3

\* ------------------------------------------------------- python objects
\* t: "StateInst" | "StateType" | "OpInst" | "OpType" | "OtherInst" |
\*    "OtherType" | "None".  label: a tuple of components, each a string
\*    held as a sequence of characters.
Obj(t, cls, label) == [t |-> t, cls |-> cls, label |-> label]

None == Obj("None", "", <<>>)

KetClasses == {"XKet", "GKet"}
BraClasses == {"XBra", "GBra"}
StateClasses == KetClasses \cup BraClasses
OperatorClasses == {"XOp", "AOp", "NOp"}
HermitianClasses == {"XOp", "AOp"}

\* dual_class of a bra/ket class
DualClass(cls) ==
    CASE cls = "XKet" -> "XBra"
      [] cls = "XBra" -> "XKet"
      [] cls = "GKet" -> "GBra"
      [] cls = "GBra" -> "GKet"
      [] OTHER -> cls

\* default_args() of a state class: the label of cls()
DefaultLabel(cls) ==
    IF cls \in {"XKet", "XBra"} THEN << <<"x">> >> ELSE << <<"p", "s", "i">> >>

\* cls(): a default instance of a state class
DefaultInstance(cls) == Obj("StateInst", cls, DefaultLabel(cls))

\* state.dual
Dual(state) == Obj("StateInst", DualClass(state.cls), state.label)

IsStateInst(o) == o.t = "StateInst"
IsBraInst(o) == o.t = "StateInst" /\ o.cls \in BraClasses
IsKetInst(o) == o.t = "StateInst" /\ o.cls \in KetClasses
IsClass(o) == o.t \in {"StateType", "OpType", "OtherType"}

\* operator_to_state(op): the state class mapped to an operator instance or
\* class, or "" when the mapping has no entry (it then returns None)
operator_to_state(cls) == IF cls = "XOp" THEN "XKet" ELSE ""

\* state_to_operator(state): the operator class mapped to a state instance
\* or class, or "" when the mapping has no entry
state_to_operator(cls) == IF cls \in {"XKet", "XBra"} THEN "XOp" ELSE ""

\* ------------------------------------------------------------- str(int)
Digit(d) ==
    CASE d = 0 -> "0" [] d = 1 -> "1" [] d = 2 -> "2" [] d = 3 -> "3"
      [] d = 4 -> "4" [] d = 5 -> "5" [] d = 6 -> "6" [] d = 7 -> "7"
      [] d = 8 -> "8" [] OTHER -> "9"

RECURSIVE StrNat(_)
StrNat(n) == IF n < 10 THEN <<Digit(n)>> ELSE StrNat(n \div 10) \o <<Digit(n % 10)>>

\* str(i) for a Python int
StrInt(i) == IF i < 0 THEN <<"-">> \o StrNat(0 - i) ELSE StrNat(i)

\* ------------------------------------------------------ enumerate_states
\* new_label = [str(lab) + "_" + str(i) for lab in label]
NewLabel(label, i) == [c \in 1..Len(label) |-> label[c] \o <<"_">> \o StrInt(i)]

\* the state_class call on the new label components
EnumState(state, i) == Obj("StateInst", state.cls, NewLabel(state.label, i))

\* range(a + 1, a + n): the first position skipped
Range_late(a, n) == IF n <= 1 THEN <<>> ELSE [j \in 1..(n - 1) |-> a + j]

\* range(a, a + n)
Range(a, n) == IF n <= 0 THEN <<>> ELSE [j \in 1..n |-> a + j - 1]

\* enumerate_states(state, index_list) as one call: the list of states, or
\* the TypeError of a first argument that is not a state
enumerate_states(state, index_list) ==
    IF ~IsStateInst(state)
    THEN [ok |-> FALSE, err |-> "TypeError", val |-> <<>>]
    ELSE [ok |-> TRUE, err |-> "",
          val |-> [j \in 1..Len(index_list) |-> EnumState(state, index_list[j])]]

\* the activation of one enumerate_states call, stepped per loop turn
EnumIdle == [pc |-> "idle", args |-> <<>>, index_list |-> <<>>,
             enum_states |-> <<>>, ct |-> 0, err |-> ""]

EnumTemplates ==
    { Obj("StateInst", "XKet", << <<"x">> >>),
      Obj("StateInst", "XBra", << <<"x">> >>),
      Obj("StateInst", "GKet", << <<"a">>, <<"b", "_", "1">> >>),
      Obj("StateInst", "XKet", << <<"x", "_", "1">> >>),
      Obj("StateType", "XKet", <<>>),
      Obj("OpInst", "XOp", << <<"X">> >>),
      None }

EnumPositions == {0 - 1, 0, 1, 2, MaxEnumStart, MaxEnumStart + 1}

EnumLists ==
    {<<>>} \cup {<<a>> : a \in EnumPositions}
           \cup {<<a, b>> : a \in EnumPositions, b \in EnumPositions}

EnumArgs ==
    {<<s>> : s \in EnumTemplates}
    \cup {<<s, l>> : s \in EnumTemplates, l \in EnumLists}
    \cup {<<s, a, n>> : s \in EnumTemplates, a \in (0 - 1)..MaxEnumStart,
                        n \in 0..MaxEnumCount}

\* lines 377-391: the type check, the index list, the result buffer
EnumStart ==
    /\ en.pc = "call"
    /\ en' = IF ~IsStateInst(en.args[1])
             THEN [en EXCEPT !.pc = "raised", !.err = "TypeError"]
             ELSE IF Len(en.args) \notin {2, 3}
             THEN [en EXCEPT !.pc = "raised", !.err = "NotImplementedError"]
             ELSE LET il == IF Len(en.args) = 2 THEN en.args[2]
                            ELSE Range(en.args[2], en.args[3])
                  IN [en EXCEPT !.pc = "loop", !.index_list = il,
                                !.enum_states = [j \in 1..Len(il) |-> 0],
                                !.ct = 0]
    /\ UNCHANGED <<jobs, results, stack, heap, gb>>

\* lines 393-397: one turn of the loop
EnumIter ==
    /\ en.pc = "loop"
    /\ en.ct < Len(en.index_list)
    /\ en' = [en EXCEPT
                !.enum_states[en.ct + 1] =
                    EnumState(en.args[1], en.index_list[en.ct + 1]),
                !.ct = en.ct + 1]
    /\ UNCHANGED <<jobs, results, stack, heap, gb>>

\* line 399
EnumReturn ==
    /\ en.pc = "loop"
    /\ en.ct = Len(en.index_list)
    /\ en' = [en EXCEPT !.pc = "done"]
    /\ UNCHANGED <<jobs, results, stack, heap, gb>>

\* ------------------------------------------------------------ expressions
\* k: "Ket" | "Bra" | "Op" | "Num" | "Sym" | "Add" | "Mul" | "Pow" |
\*    "TensorProduct" | "Dagger" | "Commutator" | "AntiCommutator" |
\*    "InnerProduct".  own: what the leaf's own _represent does ("decline":
\*    raises NotImplementedError, "matrix": returns a Matrix).  exp: a Pow's
\*    exponent ("num" or "sym").
Leaf(k, cls, label, own) ==
    [k |-> k, cls |-> cls, label |-> label, own |-> own, args |-> <<>>, exp |-> ""]

Node(k, args) ==
    [k |-> k, cls |-> "", label |-> <<>>, own |-> "", args |-> args, exp |-> ""]

PowNode(base, exp) ==
    [k |-> "Pow", cls |-> "", label |-> <<>>, own |-> "", args |-> <<base>>, exp |-> exp]

IsQExpr(e) == e.k \in {"Ket", "Bra", "Op"}
IsState(e) == e.k \in {"Ket", "Bra"}
IsKet(e) == e.k = "Ket"
IsBra(e) == e.k = "Bra"
IsOperator(e) == e.k = "Op"
IsHermitian(e) == e.k = "Op" /\ e.cls \in HermitianClasses

\* ------------------------------------------------------------- get_basis
Absent == Obj("Absent", "", <<>>)

Returned(v) == [ok |-> TRUE, err |-> "", val |-> v]
Raised(err) == [ok |-> FALSE, err |-> err, val |-> None]

\* state_class() if state_class is not None else None
MappedDefault(opcls) ==
    IF operator_to_state(opcls) = "" THEN None
    ELSE DefaultInstance(operator_to_state(opcls))

\* lines 356-374.  issubclass(basis, ...) raises TypeError when its first
\* argument is not a class.
get_basis(expr, basis) ==
    IF basis.t \in {"Absent", "None"}
    THEN IF IsState(expr) THEN Returned(DefaultInstance(expr.cls))
         ELSE IF IsOperator(expr) THEN Returned(MappedDefault(expr.cls))
         ELSE Returned(None)
    ELSE IF basis.t = "StateInst" THEN Returned(basis)
    ELSE IF ~IsClass(basis) THEN Raised("TypeError")
    ELSE IF basis.t = "StateType" THEN Returned(DefaultInstance(basis.cls))
    ELSE IF basis.t = "OpType" THEN Returned(MappedDefault(basis.cls))
    ELSE Returned(None)

GbIdle == [pc |-> "idle", expr |-> Node("Num", <<>>), basis |-> Absent,
           out |-> Returned(None)]

PsiLabel == << <<"p", "s", "i">> >>

GbExprs ==
    {Leaf("Ket", c, PsiLabel, "decline") : c \in KetClasses}
    \cup {Leaf("Bra", c, PsiLabel, "decline") : c \in BraClasses}
    \cup {Leaf("Op", c, << <<"A">> >>, "decline") : c \in OperatorClasses}
    \cup {Node("Num", <<>>), Node("Sym", <<>>),
          Node("Mul", <<Leaf("Op", "XOp", << <<"X">> >>, "decline"),
                        Leaf("Ket", "XKet", PsiLabel, "decline")>>)}

BasisSpecifiers ==
    {Absent, None, Obj("OtherInst", "", <<>>), Obj("OtherType", "", <<>>)}
    \cup {Obj("StateInst", c, l) : c \in StateClasses,
                                   l \in {<< <<"x">> >>, << <<"y">> >>}}
    \cup {Obj("StateType", c, <<>>) : c \in StateClasses}
    \cup {Obj("OpInst", c, << <<"A">> >>) : c \in OperatorClasses}
    \cup {Obj("OpType", c, <<>>) : c \in OperatorClasses}

\* one get_basis(expr, basis=...) call
GetBasisCall ==
    /\ gb.pc = "call"
    /\ gb' = LET r == get_basis(gb.expr, gb.basis)
             IN [gb EXCEPT !.pc = IF r.ok THEN "done" ELSE "raised", !.out = r]
    /\ UNCHANGED <<jobs, results, stack, heap, en>>

\* ---------------------------------------------------------------- values
\* A representation: t = "E" (a sympy Expr), "M" (a Matrix, not an Expr;
\* r1/c1: it has one row / one column) or "S" (a Python or numpy scalar,
\* not an Expr).  free: the free symbols, each a symbol name.  term: how the
\* value was built.
Term(op, of, ix, at, args) == [op |-> op, of |-> of, ix |-> ix, at |-> at, args |-> args]

NoLeaf == Node("Num", <<>>)

Val(t, r1, c1, free, term) == [t |-> t, r1 |-> r1, c1 |-> c1, free |-> free, term |-> term]

NoVal == Val("S", TRUE, TRUE, {}, Term("none", NoLeaf, 0, <<>>, <<>>))

Ok(v) == [ok |-> TRUE, err |-> "", orig |-> FALSE, val |-> v]
Fail(err, orig) == [ok |-> FALSE, err |-> err, orig |-> orig, val |-> NoVal]

IsExpr(v) == v.t = "E"
IsMatrix(v) == v.t = "M"

Bin(op, a, b) == Term(op, NoLeaf, 0, <<>>, <<a.term, b.term>>)

\* a * b
VMul(a, b) ==
    IF IsMatrix(a) /\ IsMatrix(b)
    THEN IF a.c1 = b.r1
         THEN Ok(Val("M", a.r1, b.c1, a.free \cup b.free, Bin("mul", a, b)))
         ELSE Fail("ShapeError", FALSE)
    ELSE IF IsMatrix(a) THEN Ok(Val("M", a.r1, a.c1, a.free \cup b.free, Bin("mul", a, b)))
    ELSE IF IsMatrix(b) THEN Ok(Val("M", b.r1, b.c1, a.free \cup b.free, Bin("mul", a, b)))
    ELSE Ok(Val(IF a.t = "S" /\ b.t = "S" THEN "S" ELSE "E", TRUE, TRUE,
                a.free \cup b.free, Bin("mul", a, b)))

\* a + b and a - b
VAdd(op, a, b) ==
    IF IsMatrix(a) /\ IsMatrix(b)
    THEN IF a.r1 = b.r1 /\ a.c1 = b.c1
         THEN Ok(Val("M", a.r1, a.c1, a.free \cup b.free, Bin(op, a, b)))
         ELSE Fail("ShapeError", FALSE)
    ELSE IF IsMatrix(a) \/ IsMatrix(b) THEN Fail("TypeError", FALSE)
    ELSE Ok(Val(IF a.t = "S" /\ b.t = "S" THEN "S" ELSE "E", TRUE, TRUE,
                a.free \cup b.free, Bin(op, a, b)))

\* a ** exp
VPow(a, exp) ==
    IF IsMatrix(a) /\ a.r1 # a.c1 THEN Fail("ShapeError", FALSE)
    ELSE Ok(Val(IF a.t = "S" /\ exp = "sym" THEN "E" ELSE a.t, a.r1, a.c1, a.free,
                Term("pow", NoLeaf, 0, <<exp>>, <<a.term>>)))

\* Dagger(a)
VDagger(a) ==
    Ok(Val(IF IsMatrix(a) THEN "M" ELSE "E", a.c1, a.r1, a.free,
           Term("dagger", NoLeaf, 0, <<>>, <<a.term>>)))

\* TensorProduct(*new_args)
VTensor(vs) ==
    LET ms == {j \in 1..Len(vs) : IsMatrix(vs[j])}
    IN Ok(Val(IF ms = {} THEN "E" ELSE "M",
              \A j \in ms : vs[j].r1, \A j \in ms : vs[j].c1,
              UNION {vs[j].free : j \in 1..Len(vs)},
              Term("tensor", NoLeaf, 0, <<>>, [j \in 1..Len(vs) |-> vs[j].term])))

\* A*B - B*A (sign "sub") and A*B + B*A (sign "add")
VComm(sign, A, B) ==
    LET ab == VMul(A, B)
        ba == VMul(B, A)
    IN IF ~ab.ok THEN ab ELSE IF ~ba.ok THEN ba ELSE VAdd(sign, ab.val, ba.val)

\* flatten_scalar: a 1 by 1 matrix becomes its entry
flatten_scalar(v) ==
    IF IsMatrix(v) /\ v.r1 /\ v.c1
    THEN Val("E", TRUE, TRUE, v.free, Term("item", NoLeaf, 0, <<>>, <<v.term>>))
    ELSE v

\* _sympy_to_scalar(e), lines 37-48
sympy_to_scalar(e) ==
    IF e.k = "Num"
    THEN Ok(Val("S", TRUE, TRUE, {}, Term("scalar", e, 0, <<>>, <<>>)))
    ELSE Fail("TypeError", FALSE)

\* the symbols of a state's label
LabelSymbols(state) == {state.label[c] : c \in 1..Len(state.label)}

\* ---------------------------------------------------------------- options
\* index = 0: the key is absent.  unities = 0: the key is absent; otherwise
\* the reference of the list in heap.
Options(format, basis, index, unities) ==
    [format |-> format, basis |-> basis, index |-> index, unities |-> unities]

\* options["index"] if the key is there, else the 1 the callee sets
IndexOr1(opts) == IF opts.index = 0 THEN 1 ELSE opts.index

\* the expression as a state object: a bra or ket leaf is its own instance
AsState(e) == Obj("StateInst", e.cls, e.label)

\* ------------------------------------------------------ rep_innerproduct
\* lines 220-245, called with options["basis"] set by represent
rep_innerproduct(expr, opts) ==
    IF ~IsState(expr) THEN Fail("TypeError", FALSE)
    ELSE
    LET basis == IF opts.basis.t = "Absent"
                 THEN (IF IsKet(expr) THEN DefaultInstance(expr.cls)
                       ELSE DefaultInstance(DualClass(expr.cls)))
                 ELSE opts.basis
        kbasis == IF IsBraInst(basis) THEN Dual(basis) ELSE basis
        index == IndexOr1(opts)
        en2 == enumerate_states(kbasis, Range(index, 2))
    IN IF ~en2.ok THEN Fail(en2.err, FALSE)
       ELSE
       LET basis_kets == en2.val
           bra == IF IsBra(expr) THEN AsState(expr)
                  ELSE IF basis_kets[1] = AsState(expr) THEN Dual(basis_kets[2])
                  ELSE Dual(basis_kets[1])
           ket == IF IsBra(expr)
                  THEN (IF Dual(basis_kets[1]) = AsState(expr) THEN basis_kets[2]
                        ELSE basis_kets[1])
                  ELSE AsState(expr)
           result == Term("ip", expr, 0, <<bra, ket>>, <<>>)
           free == LabelSymbols(bra) \cup LabelSymbols(ket)
       IN IF opts.format = "sympy"
          THEN Ok(Val("E", TRUE, TRUE, free, result))
          ELSE Ok(Val("S", TRUE, TRUE, {}, Term("fmt", NoLeaf, 0, <<opts.format>>, <<result>>)))

\* ------------------------------------------------------- rep_expectation
\* lines 252-271
rep_expectation(expr, opts) ==
    LET basis == IF opts.basis.t = "Absent" THEN None ELSE opts.basis
        index == IndexOr1(opts)
    IN IF ~IsOperator(expr) THEN Fail("TypeError", FALSE)
       ELSE IF basis = None /\ operator_to_state(expr.cls) = ""
       THEN Fail("NotImplementedError", FALSE)
       ELSE
       LET en2 == IF basis = None
                  THEN enumerate_states(DefaultInstance(operator_to_state(expr.cls)),
                                        Range(index, 2))
                  ELSE enumerate_states(basis, Range(index, 2))
       IN IF ~en2.ok THEN Fail(en2.err, FALSE)
          ELSE LET bra == Dual(en2.val[2])
                   ket == en2.val[1]
               IN Ok(Val("E", TRUE, TRUE, LabelSymbols(bra) \cup LabelSymbols(ket),
                         Term("qapply", expr, 0, <<bra, ket>>, <<>>)))

\* ------------------------------------------------------ integrate_result
\* the values of a unities list (each heap entry also counts its reads)
Entries(hp, ref) == IF ref = 0 THEN <<>> ELSE [j \in 1..Len(hp[ref]) |-> hp[ref][j].v]

\* lines 304-312: the basis given, or the one inferred from the last factor
IntegrationBasis(orig_expr, opts) ==
    IF opts.basis.t # "Absent" THEN opts.basis
    ELSE LET arg == orig_expr.args[Len(orig_expr.args)]
         IN IF IsState(arg) THEN DefaultInstance(arg.cls)
            ELSE IF IsOperator(arg) THEN MappedDefault(arg.cls)
            ELSE None

\* integrate(result, (coord, start, end)): coord becomes a bound variable
Integrate(v, coord) ==
    Val("E", TRUE, TRUE, v.free \ {coord}, Term("integrate", NoLeaf, 0, <<coord>>, <<v.term>>))

\* lines 325-331: the loop over coords, from position j on
RECURSIVE IntegrateFrom(_, _, _, _)
IntegrateFrom(v, coords, j, basis) ==
    IF j > Len(coords) THEN Ok(v)
    ELSE IF coords[j] \notin v.free THEN IntegrateFrom(v, coords, j + 1, basis)
    ELSE IF state_to_operator(basis.cls) = "" THEN Fail("TypeError", FALSE)
    ELSE IntegrateFrom(Integrate(v, coords[j]), coords, j + 1, basis)

\* whether integrate_result gets as far as reading the entries of unities
\* (line 322 iterates the list)
ReadsUnities(orig_expr, result, opts, hp) ==
    /\ IsExpr(result)
    /\ IntegrationBasis(orig_expr, opts) # None
    /\ Len(Entries(hp, opts.unities)) # 0
    /\ IsStateInst(IntegrationBasis(orig_expr, opts))

\* lines 300-333
integrate_result(orig_expr, result, opts, hp) ==
    LET basis == IntegrationBasis(orig_expr, opts)
        unities == Entries(hp, opts.unities)
    IN IF ~IsExpr(result) THEN Ok(result)
       ELSE IF basis = None THEN Ok(result)
       ELSE IF Len(unities) = 0 THEN Ok(result)
       ELSE LET kets == enumerate_states(basis, unities)
            IN IF ~kets.ok THEN Fail(kets.err, FALSE)
               ELSE IntegrateFrom(result,
                                  [j \in 1..Len(kets.val) |-> kets.val[j].label[1]],
                                  1, basis)

\* ------------------------------------------------- represent: a QExpr leaf
\* what expr._represent(**options) returns when the class has a rule
OwnRule(expr, opts) ==
    Val("M", IsBra(expr), IsKet(expr), {},
        Term("own", expr, opts.index, <<opts.basis, opts.format>>, <<>>))

\* lines 129-148
represent_leaf(expr, opts) ==
    IF expr.own # "decline" THEN Ok(OwnRule(expr, opts))
    ELSE LET b == get_basis(expr, opts.basis)
         IN IF ~b.ok THEN Fail(b.err, FALSE)
            ELSE LET o2 == [opts EXCEPT !.basis = b.val]
                 IN IF IsState(expr)
                    THEN LET r == rep_innerproduct(expr, o2)
                         IN IF ~r.ok /\ r.err = "NotImplementedError"
                            THEN Fail("NotImplementedError", TRUE) ELSE r
                    ELSE IF IsHermitian(expr)
                    THEN LET r == rep_expectation(expr, o2)
                         IN IF ~r.ok /\ r.err = "NotImplementedError"
                            THEN Fail("NotImplementedError", TRUE) ELSE r
                    ELSE Fail("NotImplementedError", TRUE)

\* -------------------------------------------------------------- the stack
\* One frame per active represent call.  opts is the frame's own dict.
\* in_index, in_unities and appended record, for a product frame, the index
\* and the unities list it was called with and the entries it appended to
\* unities itself.
Frame(e, opts) ==
    [e |-> e, pc |-> "start", opts |-> opts, pos |-> 0, vals |-> <<>>,
     result |-> NoVal, last_arg |-> NoLeaf, has |-> FALSE, ret |-> NoVal,
     in_index |-> opts.index, in_unities |-> opts.unities, appended |-> <<>>]

Top == stack[Len(stack)]
Running == stack # <<>>
Composites == {"Add", "Pow", "TensorProduct", "Dagger", "Commutator",
               "AntiCommutator", "InnerProduct"}

\* the sub-expressions a composite node passes to represent, in call order
Children(e) ==
    CASE e.k = "Dagger" -> <<e.args[1]>>
      [] e.k = "InnerProduct" -> <<Node("Mul", e.args)>>
      [] OTHER -> e.args

\* the callee ends: a value goes to the caller (or to the job's result), an
\* exception unwinds every frame, none of which catches it
Complete(out) ==
    IF ~out.ok \/ Len(stack) = 1
    THEN /\ stack' = <<>>
         /\ results' = Append(results, out)
    ELSE /\ stack' = [SubSeq(stack, 1, Len(stack) - 1) EXCEPT
                        ![Len(stack) - 1].has = TRUE,
                        ![Len(stack) - 1].ret = out.val]
         /\ results' = results

\* the frame calls represent(child, **options): the dict is copied
Push(frame, child) ==
    stack' = Append([stack EXCEPT ![Len(stack)] = frame], Frame(child, frame.opts))

\* a top-level represent call: the next of the calls the client makes
Call ==
    /\ ~Running
    /\ Len(results) < Len(jobs)
    /\ LET j == jobs[Len(results) + 1]
           ref == IF j.hasU THEN Len(heap) + 1 ELSE 0
       IN /\ heap' = IF j.hasU
                     THEN Append(heap, [i \in 1..Len(j.unities) |->
                                           [v |-> j.unities[i], reads |-> 0]])
                     ELSE heap
          /\ stack' = <<Frame(j.e, Options(j.format, j.basis, j.index, ref))>>
    /\ UNCHANGED <<jobs, results, en, gb>>

\* lines 129-148: a QExpr
LeafCall ==
    /\ Running
    /\ IsQExpr(Top.e)
    /\ Complete(represent_leaf(Top.e, Top.opts))
    /\ UNCHANGED <<jobs, heap, en, gb>>

\* lines 175-179: neither a QExpr, nor a composite, nor a Mul
AtomCall ==
    /\ Running
    /\ Top.e.k \in {"Num", "Sym"}
    /\ Complete(IF Top.opts.format \in {"numpy", "scipy.sparse"}
                THEN sympy_to_scalar(Top.e)
                ELSE Ok(Val("E", TRUE, TRUE, {}, Term("atom", Top.e, 0, <<>>, <<>>))))
    /\ UNCHANGED <<jobs, heap, en, gb>>

\* a composite frame takes in the value its last call returned
Absorb(f) ==
    IF ~f.has THEN Ok(NoVal)
    ELSE IF f.e.k = "Add" /\ Len(f.vals) = 1 THEN VAdd("add", f.vals[1], f.ret)
    ELSE Ok(f.ret)

Absorbed(f, v) ==
    [f EXCEPT !.has = FALSE, !.ret = NoVal,
              !.vals = IF ~f.has THEN f.vals
                       ELSE IF f.e.k = "Add" THEN <<v>> ELSE Append(f.vals, v)]

\* lines 149-174: the next recursive call of an Add, Pow, TensorProduct,
\* Dagger, Commutator, AntiCommutator or InnerProduct
Descend ==
    /\ Running
    /\ Top.e.k \in Composites
    /\ Top.pos < Len(Children(Top.e))
    /\ Top.pos = 0 \/ Top.has
    /\ LET a == Absorb(Top)
           f == [Absorbed(Top, a.val) EXCEPT !.pos = Top.pos + 1, !.pc = "call"]
       IN IF ~a.ok THEN Complete(a)
          ELSE IF Top.e.k = "Pow" /\ Top.opts.format \in {"numpy", "scipy.sparse"}
                  /\ Top.e.exp # "num"
          THEN Complete(Fail("TypeError", FALSE))
          ELSE /\ Push(f, Children(Top.e)[Top.pos + 1])
               /\ results' = results
    /\ UNCHANGED <<jobs, heap, en, gb>>

\* what a composite returns once every call has returned
Combined(e, vals) ==
    CASE e.k = "Add" -> Ok(vals[1])
      [] e.k = "Pow" -> VPow(vals[1], e.exp)
      [] e.k = "TensorProduct" -> VTensor(vals)
      [] e.k = "Dagger" -> VDagger(vals[1])
      [] e.k = "Commutator" -> VComm("sub", vals[1], vals[2])
      [] e.k = "AntiCommutator" -> VComm("add", vals[1], vals[2])
      [] OTHER -> Ok(vals[1])

\* lines 149-174: the return of a composite
Combine ==
    /\ Running
    /\ Top.e.k \in Composites
    /\ Top.pos = Len(Children(Top.e))
    /\ Top.has
    /\ LET a == Absorb(Top)
       IN IF ~a.ok THEN Complete(a)
          ELSE Complete(Combined(Top.e, Absorbed(Top, a.val).vals))
    /\ UNCHANGED <<jobs, heap, en, gb>>

\* ------------------------------------------------------------ the product
\* WalkRule with the ket-then-operator rule also bumping the index
WalkRule_bump(last_arg, arg, index) ==
    IF IsOperator(last_arg) THEN [index |-> index + 1, add |-> <<index + 1>>]
    ELSE IF IsBra(last_arg) /\ IsKet(arg) THEN [index |-> index + 1, add |-> <<>>]
    ELSE IF IsKet(last_arg) /\ IsOperator(arg) THEN [index |-> index + 1, add |-> <<index + 1>>]
    ELSE [index |-> index, add |-> <<>>]

\* WalkRule appending the next index without storing the bump
WalkRule_nobump(last_arg, arg, index) ==
    IF IsOperator(last_arg) THEN [index |-> index, add |-> <<index + 1>>]
    ELSE IF IsBra(last_arg) /\ IsKet(arg) THEN [index |-> index + 1, add |-> <<>>]
    ELSE IF IsKet(last_arg) /\ IsOperator(arg) THEN [index |-> index, add |-> <<index>>]
    ELSE [index |-> index, add |-> <<>>]

\* lines 196-202: what one turn of the loop does to the index and to the
\* unities list; add is the sequence of entries it appends
WalkRule(last_arg, arg, index) ==
    IF IsOperator(last_arg) THEN [index |-> index + 1, add |-> <<index + 1>>]
    ELSE IF IsBra(last_arg) /\ IsKet(arg) THEN [index |-> index + 1, add |-> <<>>]
    ELSE IF IsKet(last_arg) /\ IsOperator(arg) THEN [index |-> index, add |-> <<index>>]
    ELSE [index |-> index, add |-> <<>>]

\* lines 184-187
EntryIndex(index) == IF index # 0 THEN index + 1 ELSE 1

\* options["unities"].append(x) for every x of add
AppendAll(hp, ref, add) ==
    IF add = <<>> THEN hp
    ELSE [hp EXCEPT ![ref] = hp[ref] \o [j \in 1..Len(add) |-> [v |-> add[j], reads |-> 0]]]

\* lines 184-193: the index, the unities list, the call on the last factor
MulEnter ==
    /\ Running
    /\ Top.e.k = "Mul"
    /\ Top.pc = "start"
    /\ LET fresh == Top.opts.unities = 0
           ref == IF fresh THEN Len(heap) + 1 ELSE Top.opts.unities
           f == [Top EXCEPT !.pc = "last", !.pos = 1,
                            !.opts.index = EntryIndex(Top.opts.index),
                            !.opts.unities = ref]
       IN /\ heap' = IF fresh THEN Append(heap, <<>>) ELSE heap
          /\ Push(f, Top.e.args[Len(Top.e.args)])
    /\ UNCHANGED <<jobs, results, en, gb>>

\* lines 192-193 and 204-205: the product frame takes in the value returned
Folded(f) ==
    IF f.pc = "last" THEN Ok(f.ret) ELSE VMul(f.ret, f.result)

\* the factor whose representation has just returned
Current(f) == f.e.args[Len(f.e.args) - f.pos + 1]

\* lines 195-204: one turn of the loop, up to the call on the factor
MulStep ==
    /\ Running
    /\ Top.e.k = "Mul"
    /\ Top.has
    /\ Top.pos < Len(Top.e.args)
    /\ LET r == Folded(Top)
           last_arg == Current(Top)
           arg == Top.e.args[Len(Top.e.args) - Top.pos]
           w == WalkRule(last_arg, arg, Top.opts.index)
           f == [Top EXCEPT !.pc = "arg", !.pos = Top.pos + 1, !.has = FALSE,
                            !.ret = NoVal, !.result = r.val, !.last_arg = last_arg,
                            !.opts.index = w.index,
                            !.appended = Top.appended \o w.add]
       IN IF ~r.ok
          THEN /\ Complete(r)
               /\ heap' = heap
          ELSE /\ heap' = AppendAll(heap, Top.opts.unities, w.add)
               /\ Push(f, arg)
               /\ results' = results
    /\ UNCHANGED <<jobs, en, gb>>

\* every entry of the list is read once more
MarkRead(hp, ref) ==
    [hp EXCEPT ![ref] = [j \in 1..Len(hp[ref]) |->
                            [hp[ref][j] EXCEPT !.reads = hp[ref][j].reads + 1]]]

\* lines 204-213: the last multiplication, flatten_scalar, integrate_result
MulFinish ==
    /\ Running
    /\ Top.e.k = "Mul"
    /\ Top.has
    /\ Top.pos = Len(Top.e.args)
    /\ LET r == Folded(Top)
           flat == flatten_scalar(r.val)
       IN IF ~r.ok
          THEN /\ Complete(r)
               /\ heap' = heap
          ELSE /\ heap' = IF ReadsUnities(Top.e, flat, Top.opts, heap)
                          THEN MarkRead(heap, Top.opts.unities) ELSE heap
               /\ Complete(integrate_result(Top.e, flat, Top.opts, heap))
    /\ UNCHANGED <<jobs, en, gb>>

Next == Call \/ LeafCall \/ AtomCall \/ Descend \/ Combine
        \/ MulEnter \/ MulStep \/ MulFinish

\* ------------------------------------------------------------- the calls
K == Leaf("Ket", "XKet", PsiLabel, "decline")
B == Leaf("Bra", "XBra", PsiLabel, "decline")
H == Leaf("Op", "XOp", << <<"X">> >>, "decline")
Km == Leaf("Ket", "XKet", PsiLabel, "matrix")
Bm == Leaf("Bra", "XBra", PsiLabel, "matrix")
Hm == Leaf("Op", "XOp", << <<"X">> >>, "matrix")
Nm == Leaf("Op", "NOp", << <<"N">> >>, "matrix")
A == Leaf("Op", "AOp", << <<"A">> >>, "decline")
N == Leaf("Op", "NOp", << <<"N">> >>, "decline")
G == Leaf("Ket", "GKet", PsiLabel, "decline")
K1 == Leaf("Ket", "XKet", << <<"x", "_", "1">> >>, "decline")
B1 == Leaf("Bra", "XBra", << <<"x", "_", "1">> >>, "decline")
Num == Node("Num", <<>>)
Sym == Node("Sym", <<>>)

AllLeaves == {K, B, H, Km, Bm, Hm, Nm, A, N, G, K1, B1, Num, Sym}
FlatLeaves == {K, B, H, Nm, Num}

\* the products of exactly n factors drawn from S
Products(S, n) == {Node("Mul", a) : a \in [1..n -> S]}

FlatProducts == UNION {Products(FlatLeaves, n) : n \in 2..MaxFactors}

InnerProducts == {Node("Mul", <<H, K>>), Node("Mul", <<B, K>>), Node("Mul", <<K, B>>)}

Wrapped ==
    {Node("Add", <<p, q>>) : p \in InnerProducts, q \in InnerProducts \cup {K}}
    \cup {PowNode(p, x) : p \in InnerProducts, x \in {"num", "sym"}}
    \cup {Node("TensorProduct", <<p, q>>) : p \in InnerProducts, q \in InnerProducts}
    \cup {Node("Dagger", <<p>>) : p \in InnerProducts}
    \cup {Node("Commutator", <<p, q>>) : p \in InnerProducts, q \in InnerProducts}
    \cup {Node("AntiCommutator", <<p, q>>) : p \in InnerProducts, q \in InnerProducts}
    \cup {Node("InnerProduct", <<B, K>>), Node("InnerProduct", <<Bm, Km>>)}

NestedProducts ==
    {Node("Mul", <<x, w>>) : x \in {K, B, H}, w \in Wrapped}
    \cup {Node("Mul", <<w, x>>) : x \in {K, B, H}, w \in Wrapped}

BasisProducts ==
    InnerProducts \cup {Node("Mul", <<B, H, K>>), Node("Mul", <<Hm, Km>>),
                        Node("Mul", <<Bm, Km>>), Node("Mul", <<H, G>>),
                        Node("Mul", <<A, K>>), Node("Mul", <<H, K1>>)}

Job(e, format, basis, index, hasU, unities) ==
    [e |-> e, format |-> format, basis |-> basis, index |-> index,
     hasU |-> hasU, unities |-> unities]

\* a call with nothing but the expression
Fresh(e) == Job(e, "sympy", Absent, 0, FALSE, <<>>)

Addends == InnerProducts \cup {K, Hm, Node("Mul", <<B, H, K>>)}

\* the option records a sum is represented under: none, and the ones a
\* sum inside a product gets (an index and a unities list)
SumOptions == {<<0, FALSE, <<>> >>, <<1, TRUE, <<>> >>, <<1, TRUE, <<1>> >>}

\* represent(a + b), then represent(a) and represent(b) on their own, each
\* under the same initial options
SumCalls ==
    {<<Job(Node("Add", <<a, b>>), "sympy", Absent, o[1], o[2], o[3]),
       Job(a, "sympy", Absent, o[1], o[2], o[3]),
       Job(b, "sympy", Absent, o[1], o[2], o[3])>> :
        a \in Addends, b \in Addends, o \in SumOptions}

Scenarios ==
    {<<Job(e, "sympy", Absent, i, FALSE, <<>>)>> :
        e \in FlatProducts, i \in 0..MaxStartIndex}
    \cup {<<Fresh(e)>> : e \in NestedProducts \cup Wrapped}
    \cup {<<Job(e, "numpy", Absent, 0, FALSE, <<>>)>> : e \in Wrapped \cup BasisProducts}
    \cup {<<Job(e, f, b, 0, FALSE, <<>>)>> :
            e \in AllLeaves, f \in {"sympy", "numpy"}, b \in BasisSpecifiers}
    \cup {<<Job(e, "sympy", b, 0, FALSE, <<>>)>> :
            e \in BasisProducts, b \in BasisSpecifiers}
    \cup SumCalls

Init ==
    /\ jobs \in Scenarios
    /\ results = <<>>
    /\ stack = <<>>
    /\ heap = <<>>
    /\ en = EnumIdle
    /\ gb = GbIdle

Spec == Init /\ [][Next]_vars

InitIdle ==
    /\ jobs = <<>>
    /\ results = <<>>
    /\ stack = <<>>
    /\ heap = <<>>

InitEnum ==
    /\ InitIdle
    /\ gb = GbIdle
    /\ en \in {[EnumIdle EXCEPT !.pc = "call", !.args = a] : a \in EnumArgs}

NextEnum == EnumStart \/ EnumIter \/ EnumReturn

SpecEnum == InitEnum /\ [][NextEnum]_vars

InitBasis ==
    /\ InitIdle
    /\ en = EnumIdle
    /\ gb \in {[GbIdle EXCEPT !.pc = "call", !.expr = e, !.basis = b] :
                  e \in GbExprs, b \in BasisSpecifiers}

NextBasis == GetBasisCall

SpecBasis == InitBasis /\ [][NextBasis]_vars

\* ================================================================= claims
IsLeafExpr(e) == e.k \notin Composites \cup {"Mul"}
IsFlat(e) == e.k = "Mul" /\ \A j \in 1..Len(e.args) : IsLeafExpr(e.args[j])
Frames == {stack[d] : d \in 1..Len(stack)}

\* The walk as the product algorithm's rules state it: the index and the
\* unities entries after the n rightmost factors, from starting index start
\* (0: unset).
C1Step(prev, cur, st) ==
    IF prev.k = "Op"
    THEN [index |-> st.index + 1, unities |-> Append(st.unities, st.index + 1)]
    ELSE IF prev.k = "Bra" /\ cur.k = "Ket"
    THEN [index |-> st.index + 1, unities |-> st.unities]
    ELSE IF prev.k = "Ket" /\ cur.k = "Op"
    THEN [index |-> st.index, unities |-> Append(st.unities, st.index)]
    ELSE st

RECURSIVE C1After(_, _, _)
C1After(args, start, n) ==
    IF n <= 1
    THEN [index |-> IF start = 0 THEN 1 ELSE start + 1, unities |-> <<>>]
    ELSE C1Step(args[Len(args) - n + 2], args[Len(args) - n + 1],
                C1After(args, start, n - 1))

\* C1: in every product frame the index counter and the unities entries the
\* frame has appended are the function of the factor kinds and the starting
\* index that the four rules define (first matching rule only); when the
\* factors are leaves and the frame made the list, that is the whole list;
\* Bra*Operator*Ket from fresh options ends with index 2 and unities [1, 2].
C1_ProductBookkeeping ==
    \A f \in Frames :
        (f.e.k = "Mul" /\ f.pos >= 1) =>
            LET want == C1After(f.e.args, f.in_index, f.pos)
                list == Entries(heap, f.opts.unities)
            IN /\ f.opts.index = want.index
               /\ f.appended = want.unities
               /\ (IsFlat(f.e) /\ f.in_unities = 0) => list = want.unities
               /\ (/\ Len(f.e.args) = 3 /\ f.pos = 3
                   /\ f.e.args[1].k = "Bra" /\ f.e.args[2].k = "Op"
                   /\ f.e.args[3].k = "Ket"
                   /\ f.in_index = 0 /\ f.in_unities = 0)
                  => (f.opts.index = 2 /\ list = <<1, 2>>)

\* Bra*Operator*Ket has been walked from fresh options
C1_Witness ==
    /\ Len(stack) = 1
    /\ stack[1].e = Node("Mul", <<B, H, K>>)
    /\ stack[1].in_index = 0 /\ stack[1].in_unities = 0
    /\ stack[1].pos = 3 /\ stack[1].has
    /\ stack[1].opts.index = 2
    /\ Entries(heap, stack[1].opts.unities) = <<1, 2>>

\* C10: in a flat product represented from fresh options, at every point of
\* the walk, 1 <= index <= factors processed, the unities list has at most
\* one entry per processed factor after the first, every entry lies in
\* 1..index, and the list is in non-decreasing order.
C10_FlatWalkBounds ==
    \A f \in Frames :
        (IsFlat(f.e) /\ f.pos >= 1 /\ f.in_index = 0 /\ f.in_unities = 0) =>
            LET list == Entries(heap, f.opts.unities)
            IN /\ 1 <= f.opts.index /\ f.opts.index <= f.pos
               /\ Len(list) <= f.pos - 1
               /\ \A j \in 1..Len(list) : 1 <= list[j] /\ list[j] <= f.opts.index
               /\ \A i \in 1..Len(list), j \in 1..Len(list) :
                      i <= j => list[i] <= list[j]

\* a flat product walked to its end with both bounds met
C10_Witness ==
    \E f \in Frames :
        /\ IsFlat(f.e) /\ f.in_index = 0 /\ f.in_unities = 0
        /\ f.pos = Len(f.e.args) /\ f.has
        /\ f.opts.index = f.pos
        /\ Len(Entries(heap, f.opts.unities)) = f.pos - 1
        /\ f.pos >= 3

\* the integer a decimal text denotes
C9DigitValue(ch) ==
    CASE ch = "0" -> 0 [] ch = "1" -> 1 [] ch = "2" -> 2 [] ch = "3" -> 3
      [] ch = "4" -> 4 [] ch = "5" -> 5 [] ch = "6" -> 6 [] ch = "7" -> 7
      [] ch = "8" -> 8 [] ch = "9" -> 9 [] OTHER -> 0 - 1000

RECURSIVE C9Nat(_)
C9Nat(txt) ==
    IF Len(txt) = 0 THEN 0 - 1000
    ELSE IF Len(txt) = 1 THEN C9DigitValue(txt[1])
    ELSE 10 * C9Nat(SubSeq(txt, 1, Len(txt) - 1)) + C9DigitValue(txt[Len(txt)])

C9Value(txt) ==
    IF Len(txt) > 0 /\ txt[1] = "-" THEN 0 - C9Nat(Tail(txt)) ELSE C9Nat(txt)

\* the positions the call names: the list given, or start .. start+count-1
C9Positions(args) ==
    IF Len(args) = 2 THEN args[2]
    ELSE [j \in 1..args[3] |-> args[2] + j - 1]

\* component l is component t followed by "_" and the text of position p
C9Suffixed(l, t, p) ==
    /\ Len(l) >= Len(t) + 2
    /\ SubSeq(l, 1, Len(t)) = t
    /\ l[Len(t) + 1] = "_"
    /\ C9Value(SubSeq(l, Len(t) + 2, Len(l))) = p

\* C9: enumerate_states(template, start, count) returns exactly count states
\* for start .. start+count-1 in order, enumerate_states(template, positions)
\* one state per listed position in order; each has the template's class and
\* label arity and every label component is the template's followed by "_"
\* and the position; distinct positions give distinct labels; a template
\* that is not a state gives a TypeError and no state.
C9_EnumerateStates ==
    /\ (en.pc \in {"loop", "done", "raised"} /\ ~IsStateInst(en.args[1])) =>
           (en.pc = "raised" /\ en.err = "TypeError" /\ en.enum_states = <<>>)
    /\ (en.pc = "raised" /\ Len(en.args) \in {2, 3}) => ~IsStateInst(en.args[1])
    /\ en.pc = "done" =>
           LET tpl == en.args[1]
               ps == C9Positions(en.args)
               out == en.enum_states
           IN /\ Len(out) = Len(ps)
              /\ Len(en.args) = 3 => Len(out) = en.args[3]
              /\ \A j \in 1..Len(out) :
                     /\ out[j].t = "StateInst"
                     /\ out[j].cls = tpl.cls
                     /\ Len(out[j].label) = Len(tpl.label)
                     /\ \A c \in 1..Len(tpl.label) :
                            C9Suffixed(out[j].label[c], tpl.label[c], ps[j])
              /\ \A i \in 1..Len(out), j \in 1..Len(out) :
                     ps[i] # ps[j] => out[i].label # out[j].label

\* three states returned for positions 9, 10, 11 of a two-component label
C9_Witness ==
    /\ en.pc = "done"
    /\ Len(en.args) = 3 /\ en.args[2] = 9 /\ en.args[3] = 3
    /\ Len(en.args[1].label) = 2
    /\ Len(en.enum_states) = 3
    /\ en.enum_states[3].label[1] = <<"a", "_", "1", "1">>

\* a product frame nested under an outer product returns to its caller
C2Returns ==
    /\ Len(stack) >= 2
    /\ Len(stack') = Len(stack) - 1
    /\ Top.e.k = "Mul"
    /\ \E d \in 1..(Len(stack) - 1) : stack[d].e.k = "Mul"

\* C2: the index counter and the unities list are one running state for the
\* whole recursion: when a nested product call has incremented the index
\* or appended to unities, the calling frame holds the updated index and
\* the updated list once the nested call has returned.
C2_NestedStateShared ==
    [][C2Returns =>
          /\ stack'[Len(stack')].opts.index = Top.opts.index
          /\ Entries(heap', stack'[Len(stack')].opts.unities)
                 = Entries(heap', Top.opts.unities)]_vars

\* C3: within one top-level call the index counter in effect (that of the
\* frame executing) is set to 1 on first use and never decreases from one
\* step to the next, returns of nested calls included.
C3_IndexMonotone ==
    [][(Running /\ stack' # <<>>) =>
          LET now == Top.opts.index
              next == stack'[Len(stack')].opts.index
          IN /\ (now # 0 /\ next # 0) => next >= now
             /\ (now = 0 /\ next # 0 /\ Len(stack') >= Len(stack)) => next = 1]_vars

\* the fallback a declining leaf gets
C4Fallback(e) == IF IsState(e) THEN {"ip", "fmt"} ELSE {"qapply"}

\* C4: for a leaf whose own rule declines, under every basis specifier,
\* represent returns the fallback result (rep_innerproduct for a bra or ket,
\* rep_expectation for a Hermitian operator) or fails with the leaf's
\* original decline reason; no failure of the fallback path is surfaced.
C4_DeclineSurfacesOriginal ==
    \A i \in 1..Len(results) :
        (IsQExpr(jobs[i].e) /\ jobs[i].e.own = "decline") =>
            \/ /\ results[i].ok
               /\ IsState(jobs[i].e) \/ IsHermitian(jobs[i].e)
               /\ results[i].val.term.op \in C4Fallback(jobs[i].e)
            \/ /\ ~results[i].ok
               /\ results[i].err = "NotImplementedError"
               /\ results[i].orig

\* what get_basis is to return for an expression and a specifier
C5Expected(expr, basis) ==
    CASE basis.t \in {"Absent", "None"} ->
            (IF IsState(expr) THEN DefaultInstance(expr.cls)
             ELSE IF IsOperator(expr) THEN MappedDefault(expr.cls)
             ELSE None)
      [] basis.t = "StateInst" -> basis
      [] basis.t = "StateType" -> DefaultInstance(basis.cls)
      [] basis.t \in {"OpInst", "OpType"} -> MappedDefault(basis.cls)
      [] OTHER -> None

\* C5: get_basis is total and never raises: for every expression and every
\* specifier shape it returns the value its rules name (an operator
\* instance or type resolves through the operator-to-state mapping, any
\* other shape gives None).
C5_GetBasisTotal ==
    gb.pc \in {"done", "raised"} =>
        /\ gb.out.ok
        /\ gb.out.val = C5Expected(gb.expr, gb.basis)

\* C6: over the whole call tree every recorded unities entry is read by
\* exactly one integrate_result invocation and by no later one.
C6_UnitiesReadOnce ==
    \A ref \in 1..Len(heap) : \A j \in 1..Len(heap[ref]) : heap[ref][j].reads <= 1

\* the basis a specifier stands for
C7Resolved(basis) ==
    CASE basis.t = "StateInst" -> basis
      [] basis.t = "StateType" -> DefaultInstance(basis.cls)
      [] basis.t \in {"OpInst", "OpType"} -> MappedDefault(basis.cls)
      [] OTHER -> None

C7Basis(f) ==
    IF f.opts.basis.t = "Absent"
    THEN LET arg == f.e.args[Len(f.e.args)]
         IN IF IsState(arg) THEN DefaultInstance(arg.cls)
            ELSE IF IsOperator(arg) THEN MappedDefault(arg.cls) ELSE None
    ELSE C7Resolved(f.opts.basis)

\* a product frame is about to flatten its result and call integrate_result
C7Finishes ==
    /\ Running
    /\ Top.e.k = "Mul" /\ Top.has /\ Top.pos = Len(Top.e.args)
    /\ Folded(Top).ok

\* what the frame then hands back
C7Out == IF stack' = <<>> THEN results'[Len(results')] ELSE Ok(stack'[Len(stack')].ret)

\* C7: integrate_result returns the result unchanged when it is not an Expr,
\* when no basis is given or inferable, or when unities is empty; otherwise,
\* for a basis given in any specifier form (state or operator, instance or
\* type) or inferred, it returns an expression in which no coordinate
\* enumerated from the basis at the unities indices is free.  The statement
\* is about bases that have a generating operator (it speaks of the basis
\* operator's interval), so nothing is required of a basis without one.
C7_IntegrateResult ==
    [][C7Finishes =>
          LET flat == flatten_scalar(Folded(Top).val)
              basis == C7Basis(Top)
              us == Entries(heap, Top.opts.unities)
          IN IF ~IsExpr(flat) \/ basis = None \/ us = <<>>
             THEN C7Out = Ok(flat)
             ELSE state_to_operator(basis.cls) # "" =>
                  /\ C7Out.ok
                  /\ IsExpr(C7Out.val)
                  /\ \A j \in 1..Len(us) :
                         EnumState(basis, us[j]).label[1] \notin C7Out.val.free]_vars

\* C8: represent(a+b) equals represent(a) + represent(b), each addend
\* represented alone under the same initial options, for every options
\* record, those carrying an index counter and a unities list included.
C8_SumOfRepresentations ==
    (Len(jobs) = 3 /\ Len(results) = 3) =>
        IF results[2].ok /\ results[3].ok
        THEN results[1] = VAdd("add", results[2].val, results[3].val)
        ELSE ~results[1].ok

====
